---- MODULE Spec2Model ----
(***************************************************************************)
(* Model of GIC/CNN/model.py: the ConvNet dimension bookkeeping            *)
(* (conv_out, ConvNet.convolution, ConvNet.pooling), the training loop     *)
(* (train_model), the evaluation loop (load_model) and the checkpoint      *)
(* writer (save_model).                                                    *)
(*                                                                         *)
(* The program is single threaded.  A caller sits at pc = "idle" and calls *)
(* one function at a time.  train_model is modelled statement by           *)
(* statement (pc walks through its lines); the other functions are one     *)
(* action each.  `call` records the last call (its arguments and the       *)
(* values the state had when it was made), `ret` its outcome.              *)
(*                                                                         *)
(* Optional Python arguments (None or a value) are sequences of length 0   *)
(* or 1.  Floats that the code only adds and divides are kept as exact     *)
(* fractions [num, den] of integers.                                       *)
(***************************************************************************)
EXTENDS Integers, Sequences, FiniteSets

VARIABLES
    img_h, img_w, last_out, n_layers,
    params, files, eval_loader,
    pc, targs, n_total_steps, print_epochs, epoch, i, mean_loss, loss_counter,
    loss, nb, exact, losses, ops, batches, opt_steps, printed, line,
    call, ret

builderVars == <<img_h, img_w, last_out, n_layers>>
ioVars == <<params, files>>
trainVars == <<pc, targs, n_total_steps, print_epochs, epoch, i, mean_loss,
               loss_counter, loss, nb, exact, losses, ops, batches, opt_steps,
               printed, line>>
vars == <<builderVars, ioVars, eval_loader, trainVars, call, ret>>

\* What the locals of train_model and the history of its run hold when no
\* loop has run.
NoRun ==
    /\ n_total_steps = 0 /\ print_epochs = 0 /\ epoch = -1 /\ i = -1
    /\ mean_loss = 0 /\ loss_counter = 0 /\ loss = 0
    /\ nb = 0 /\ exact = TRUE /\ losses = <<>> /\ ops = <<>>
    /\ batches = 0 /\ opt_steps = 0 /\ printed = 0 /\ line = <<>>

\* The next call finds nothing of the frame of a train_model call that has
\* returned.
FrameGone ==
    /\ n_total_steps' = 0 /\ print_epochs' = 0 /\ epoch' = -1 /\ i' = -1
    /\ mean_loss' = 0 /\ loss_counter' = 0 /\ loss' = 0
    /\ nb' = 0 /\ exact' = TRUE /\ losses' = <<>> /\ ops' = <<>>
    /\ batches' = 0 /\ opt_steps' = 0 /\ printed' = 0 /\ line' = <<>>

-----------------------------------------------------------------------------
(* Bounds of the model.                                                    *)

MaxSize == 2
MaxKernel == 2
MaxStride == 2
MaxPadding == 1
MaxLayers == 2

-----------------------------------------------------------------------------
(* Python arithmetic on integers, for a divisor b > 0.                     *)

\* int(a / b): float division, then truncation toward zero.
int_div(a, b) == IF a >= 0 THEN a \div b ELSE -((-a) \div b)

\* math.ceil(a / b)
ceil(a, b) == -((-a) \div b)

-----------------------------------------------------------------------------
(* Architecture builder                                                    *)

AutoPadding == -1

conv_out(size, padding, kernel, stride) ==
    int_div(size + 2 * padding - kernel, stride) + 1

\* Channel counts the constructor asks for (conv1, conv2), and the pool
\* sizes it asks for (maxPool3, maxPool2).
OutSizes == {16, 32}
PoolKernels == {2, 3}

PoolTypes == {"max", "avg", "lp", "min"}

\* The arguments conv_out is tried on: a small grid, and the case of the
\* specification's example.
ConvOutArgs ==
    ([size : 1..MaxSize, padding : 0..MaxPadding, kernel : 1..MaxKernel,
      stride : 1..MaxStride])
    \cup {[size |-> 28, padding |-> 2, kernel |-> 5, stride |-> 1]}

Conv2d(in_size, out_size, kernel, padding) ==
    [kind |-> "Conv2d", in_channels |-> in_size, out_channels |-> out_size,
     kernel_size |-> kernel, stride |-> 1, padding |-> padding]

\* ConvNet.convolution(in_size, out_size, kernel, stride, padding)
convolution(in_size, out_size, kernel, stride, padding) ==
    /\ pc = "idle"
    /\ n_layers < MaxLayers
    /\ n_layers' = n_layers + 1
    /\ last_out' = out_size
    /\ call' = [op |-> "convolution", in_size |-> in_size, out_size |-> out_size,
                kernel |-> kernel, stride |-> stride, padding |-> padding,
                img_h |-> img_h, img_w |-> img_w]
    /\ IF padding = AutoPadding
       THEN /\ img_h' = ceil(img_h, stride)
            /\ img_w' = ceil(img_w, stride)
            /\ ret' = [kind |-> "returned",
                       value |-> Conv2d(in_size, out_size, kernel, int_div(kernel, 2))]
       ELSE /\ img_h' = int_div(img_h + 2 * padding - kernel, stride) + 1
            /\ img_w' = int_div(img_w + 2 * padding - kernel, stride) + 1
            /\ ret' = [kind |-> "returned",
                       value |-> Conv2d(in_size, out_size, kernel, padding)]
    /\ UNCHANGED <<ioVars, eval_loader, trainVars>>

\* What ConvNet.pooling returns for a pool type.
PoolResult(kernel, stride, pool_type) ==
    IF pool_type = "max" THEN [kind |-> "MaxPool2d", kernel_size |-> kernel, stride |-> stride]
    ELSE IF pool_type = "avg" THEN [kind |-> "AvgPool2d", kernel_size |-> kernel, stride |-> stride]
    ELSE IF pool_type = "lp" THEN [kind |-> "LPPool2d", kernel_size |-> kernel, stride |-> stride]
    ELSE [kind |-> "TypeError", message |-> "Unknown Type"]

\* ConvNet.pooling as it would be if the pool type were checked before the
\* dimensions are touched.
pooling_checks_type_first(kernel, stride, pool_type) ==
    /\ pc = "idle"
    /\ n_layers < MaxLayers
    /\ n_layers' = n_layers + 1
    /\ call' = [op |-> "pooling", kernel |-> kernel, stride |-> stride,
                pool_type |-> pool_type, img_h |-> img_h, img_w |-> img_w]
    /\ IF pool_type \in {"max", "avg", "lp"}
       THEN img_h' = int_div(img_h, stride) /\ img_w' = int_div(img_w, stride)
       ELSE img_h' = img_h /\ img_w' = img_w
    /\ ret' = [kind |-> "returned", value |-> PoolResult(kernel, stride, pool_type)]
    /\ UNCHANGED <<last_out, ioVars, eval_loader, trainVars>>

\* ConvNet.pooling(kernel, stride, pool_type)
pooling(kernel, stride, pool_type) ==
    /\ pc = "idle"
    /\ n_layers < MaxLayers
    /\ n_layers' = n_layers + 1
    /\ call' = [op |-> "pooling", kernel |-> kernel, stride |-> stride,
                pool_type |-> pool_type, img_h |-> img_h, img_w |-> img_w]
    /\ img_h' = int_div(img_h, stride)
    /\ img_w' = int_div(img_w, stride)
    /\ ret' = [kind |-> "returned", value |-> PoolResult(kernel, stride, pool_type)]
    /\ UNCHANGED <<last_out, ioVars, eval_loader, trainVars>>

\* A call of the module-level function conv_out.
ConvOutCall(a) ==
    /\ pc = "idle"
    /\ call' = [op |-> "conv_out", size |-> a.size, padding |-> a.padding,
                kernel |-> a.kernel, stride |-> a.stride]
    /\ ret' = [kind |-> "returned",
               value |-> conv_out(a.size, a.padding, a.kernel, a.stride)]
    /\ UNCHANGED <<builderVars, ioVars, eval_loader, trainVars>>

-----------------------------------------------------------------------------
(* Model parameters, checkpoints, evaluation                               *)

MaxParam == 1
MaxPixel == 1
MaxSamples == 2
MaxWrongs == 1
NClasses == 2

Models == {"model", "other_model"}
ParamVals == 0..MaxParam
Paths == {"model.pth"}

\* torch.device(...) values: a type and an optional index.
Device(type, index) == [type |-> type, index |-> index]
cpu == Device("cpu", <<>>)
cuda == Device("cuda", <<>>)
mps == Device("mps", <<>>)
cuda0 == Device("cuda", <<0>>)
Devices == {cpu, cuda, mps, cuda0}

\* An image is its pixel row; a sample is <<image, label>>.
Images == 0..MaxPixel
Labels == 0..(NClasses - 1)
Samples == Images \X Labels

SeqsUpTo(S, n) == UNION {[1..k -> S] : k \in 0..n}

\* A data loader: a dataset cut into batches of batch_size, the last one
\* possibly shorter.
Loaders(n) == [dataset : SeqsUpTo(Samples, n), batch_size : 1..n]

NBatches(loader) ==
    (Len(loader.dataset) + loader.batch_size - 1) \div loader.batch_size

Batch(loader, b) ==
    SubSeq(loader.dataset, (b - 1) * loader.batch_size + 1,
           IF b * loader.batch_size < Len(loader.dataset)
           THEN b * loader.batch_size ELSE Len(loader.dataset))

\* torch.max(model(images), 1): the class the model with parameters p
\* gives an image.
Predicted(p, image) == (p + image) % NClasses

\* Tensor.numpy() works on cpu tensors only.
NumpyWorks(device) == device.type = "cpu"

\* The counters of load_model before the first batch.
EvalStart ==
    [n_correct |-> 0, n_samples |-> 0,
     n_class_correct |-> [c \in Labels |-> 0],
     n_class_samples |-> [c \in Labels |-> 0],
     wrongs |-> <<>>, exc |-> <<>>]

InSeq(x, s) == \E k \in 1..Len(s) : s[k] = x

\* One pass of the loop over the samples of a batch.
EvalSample(acc, p, sample, device, show_wrongs, n_wrongs) ==
    LET image == sample[1]
        label == sample[2]
        pred == Predicted(p, image)
        counted == [acc EXCEPT !.n_class_samples[label] = @ + 1]
    IN  IF acc.exc # <<>> THEN acc
        ELSE IF label = pred
        THEN [counted EXCEPT !.n_class_correct[label] = @ + 1]
        ELSE IF show_wrongs /\ n_wrongs > Len(acc.wrongs)
        THEN IF ~NumpyWorks(device)
             THEN [acc EXCEPT !.exc = <<"TypeError">>]
             ELSE IF ~InSeq(image, acc.wrongs)
                  THEN [counted EXCEPT !.wrongs = Append(@, image)]
                  ELSE counted
        ELSE counted

RECURSIVE EvalSamples(_, _, _, _, _, _, _)
EvalSamples(acc, p, batch, k, device, show_wrongs, n_wrongs) ==
    IF k > Len(batch) THEN acc
    ELSE EvalSamples(EvalSample(acc, p, batch[k], device, show_wrongs, n_wrongs),
                     p, batch, k + 1, device, show_wrongs, n_wrongs)

\* (predicted == labels).sum().item()
NCorrect(p, batch) ==
    Cardinality({k \in 1..Len(batch) : Predicted(p, batch[k][1]) = batch[k][2]})

\* One pass of the loop over the batches.
EvalBatch(acc, p, batch, device, show_wrongs, n_wrongs) ==
    IF acc.exc # <<>> THEN acc
    ELSE EvalSamples([acc EXCEPT !.n_samples = @ + Len(batch),
                                 !.n_correct = @ + NCorrect(p, batch)],
                     p, batch, 1, device, show_wrongs, n_wrongs)

RECURSIVE EvalBatches(_, _, _, _, _, _, _)
EvalBatches(acc, p, loader, b, device, show_wrongs, n_wrongs) ==
    IF b > NBatches(loader) THEN acc
    ELSE EvalBatches(EvalBatch(acc, p, Batch(loader, b), device, show_wrongs, n_wrongs),
                     p, loader, b + 1, device, show_wrongs, n_wrongs)

Raised(exc, at) == [kind |-> "raised", exc |-> exc, at |-> at]

\* The outcome of the testing part of load_model for a model with
\* parameters p.
Evaluate(p, loader, device, class_results, show_wrongs, n_wrongs) ==
    LET acc == EvalBatches(EvalStart, p, loader, 1, device, show_wrongs, n_wrongs)
    IN  IF acc.exc # <<>> THEN Raised(acc.exc[1], 107)
        ELSE IF acc.n_samples = 0 THEN Raised("ZeroDivisionError", 113)
        ELSE IF class_results /\ \E c \in Labels : acc.n_class_samples[c] = 0
        THEN Raised("ZeroDivisionError", 118)
        ELSE [kind |-> "returned",
              value |-> [num |-> 100 * acc.n_correct, den |-> acc.n_samples],
              shown |-> acc.wrongs]

\* LoadsCheckpoint as it would be if the checkpoint were read whatever the
\* device.
LoadsCheckpointAnyDevice(device, save_path) == save_path # <<>>

\* Whether load_model reads the checkpoint for this device.
LoadsCheckpoint(device, save_path) ==
    /\ save_path # <<>>
    /\ \/ device = cuda
       \/ device = mps
       \/ device = cpu

\* load_model(model, data_loader, classification, device, save_path,
\*            class_results, show_wrongs, n_wrongs), data_loader being
\* eval_loader and classification the NClasses class names.
load_model(m, device, save_path, class_results, show_wrongs, n_wrongs) ==
    /\ pc = "idle"
    /\ call' = [op |-> "load_model", model |-> m, device |-> device,
                save_path |-> save_path, class_results |-> class_results,
                show_wrongs |-> show_wrongs, n_wrongs |-> n_wrongs]
    /\ IF LoadsCheckpoint(device, save_path)
       THEN IF files[save_path[1]] = <<>>
            THEN /\ ret' = Raised("FileNotFoundError", 78)
                 /\ params' = params
            ELSE /\ params' = [params EXCEPT ![m] = files[save_path[1]][1]]
                 /\ ret' = Evaluate(files[save_path[1]][1], eval_loader, device,
                                    class_results, show_wrongs, n_wrongs)
       ELSE /\ params' = params
            /\ ret' = Evaluate(params[m], eval_loader, device,
                               class_results, show_wrongs, n_wrongs)
    /\ FrameGone
    /\ UNCHANGED <<builderVars, files, eval_loader, pc, targs>>

\* save_model(model, save_path)
save_model(m, save_path) ==
    /\ pc = "idle"
    /\ call' = [op |-> "save_model", model |-> m, save_path |-> save_path]
    /\ files' = [files EXCEPT ![save_path] = <<params[m]>>]
    /\ ret' = [kind |-> "returned", value |-> <<>>]
    /\ FrameGone
    /\ UNCHANGED <<builderVars, params, eval_loader, pc, targs>>

-----------------------------------------------------------------------------
(* Training loop                                                           *)

MaxEpochs == 2
MaxBatches == 2
MaxPrintSteps == 2

\* The values a batch loss takes: zero and a positive unit.
LossValues == {0, 1}

\* print_epochs as the caller may give it: None, every epoch, every second.
PrintEpochsArgs == {<<>>, <<1>>, <<2>>}

\* optimizer.step(): the update the gradient of the batch loss gives the
\* parameters (none for a zero loss).
optimizer_step(p, batch_loss) == (p + batch_loss) % (MaxParam + 1)

\* train_model(model, data_loader, criterion, optimizer, n_epochs, device,
\*             print_steps, print_epochs, loss_acc) is called; len is
\* len(data_loader).
TrainCall(m, n_epochs, len, print_steps, pe) ==
    /\ pc = "idle"
    /\ targs' = [model |-> m, n_epochs |-> n_epochs, len |-> len,
                 print_steps |-> print_steps, print_epochs |-> pe]
    /\ call' = [op |-> "train_model", model |-> m, n_epochs |-> n_epochs,
                len |-> len, print_steps |-> print_steps, print_epochs |-> pe]
    /\ ret' = [kind |-> "none"]
    /\ pc' = "l27"
    /\ FrameGone
    /\ UNCHANGED <<builderVars, ioVars, eval_loader>>

\* Lines 27-33: the banner, the print variables, model.to(device).
TrainStart ==
    /\ pc = "l27"
    /\ print_epochs' = IF targs.print_epochs = <<>> THEN targs.n_epochs
                       ELSE targs.print_epochs[1]
    /\ n_total_steps' = targs.len
    /\ mean_loss' = 0
    /\ pc' = "l34"
    /\ UNCHANGED <<builderVars, ioVars, eval_loader, targs, epoch, i, loss_counter,
                   loss, nb, exact, losses, ops, batches, opt_steps, printed, line,
                   call, ret>>

\* Line 34: for epoch in range(n_epochs).
ForEpoch ==
    /\ pc = "l34"
    /\ IF epoch + 1 < targs.n_epochs
       THEN epoch' = epoch + 1 /\ pc' = "l35"
       ELSE epoch' = epoch /\ pc' = "l56"
    /\ UNCHANGED <<builderVars, ioVars, eval_loader, targs, n_total_steps,
                   print_epochs, i, mean_loss, loss_counter, loss, nb, exact, losses,
                   ops, batches, opt_steps, printed, line, call, ret>>

\* EpochStart as it would be if mean_loss were not reset at line 35.
EpochStartKeepsLoss(k) ==
    /\ pc = "l35"
    /\ loss_counter' = 0
    /\ i' = -1
    /\ nb' = k
    /\ exact' = (exact /\ k = n_total_steps)
    /\ losses' = <<>>
    /\ printed' = 0
    /\ pc' = "l37"
    /\ UNCHANGED <<builderVars, ioVars, eval_loader, targs, n_total_steps,
                   print_epochs, epoch, mean_loss, loss, ops, batches, opt_steps,
                   line, call, ret>>

\* Lines 35-37: the accumulators are reset and the loader starts an
\* iteration, which will yield k batches.
EpochStart(k) ==
    /\ pc = "l35"
    /\ mean_loss' = 0
    /\ loss_counter' = 0
    /\ i' = -1
    /\ nb' = k
    /\ exact' = (exact /\ k = n_total_steps)
    /\ losses' = <<>>
    /\ printed' = 0
    /\ pc' = "l37"
    /\ UNCHANGED <<builderVars, ioVars, eval_loader, targs, n_total_steps,
                   print_epochs, epoch, loss, ops, batches, opt_steps, line,
                   call, ret>>

\* Lines 37-39: for i, (images, labels) in enumerate(data_loader), and the
\* batch is moved to the device.
ForBatch ==
    /\ pc = "l37"
    /\ IF i + 1 < nb
       THEN /\ i' = i + 1
            /\ batches' = batches + 1
            /\ ops' = <<>>
            /\ pc' = "l42"
       ELSE /\ pc' = "l34"
            /\ UNCHANGED <<i, batches, ops>>
    /\ UNCHANGED <<builderVars, ioVars, eval_loader, targs, n_total_steps,
                   print_epochs, epoch, mean_loss, loss_counter, loss, nb, exact,
                   losses, opt_steps, printed, line, call, ret>>

\* Line 42: outputs = model(images)
Forward ==
    /\ pc = "l42"
    /\ ops' = Append(ops, "forward")
    /\ pc' = "l43"
    /\ UNCHANGED <<builderVars, ioVars, eval_loader, targs, n_total_steps,
                   print_epochs, epoch, i, mean_loss, loss_counter, loss, nb, exact,
                   losses, batches, opt_steps, printed, line, call, ret>>

\* Line 43: loss = criterion(outputs, labels)
Loss(v) ==
    /\ pc = "l43"
    /\ loss' = v
    /\ losses' = Append(losses, v)
    /\ ops' = Append(ops, "loss")
    /\ pc' = "l44"
    /\ UNCHANGED <<builderVars, ioVars, eval_loader, targs, n_total_steps,
                   print_epochs, epoch, i, mean_loss, loss_counter, nb, exact,
                   batches, opt_steps, printed, line, call, ret>>

\* Lines 44-45: mean_loss += loss.item(); loss_counter += 1
Accumulate ==
    /\ pc = "l44"
    /\ mean_loss' = mean_loss + loss
    /\ loss_counter' = loss_counter + 1
    /\ pc' = "l48"
    /\ UNCHANGED <<builderVars, ioVars, eval_loader, targs, n_total_steps,
                   print_epochs, epoch, i, loss, nb, exact, losses, ops, batches,
                   opt_steps, printed, line, call, ret>>

\* Line 48: optimizer.zero_grad()
ZeroGrad ==
    /\ pc = "l48"
    /\ ops' = Append(ops, "zero_grad")
    /\ pc' = "l49"
    /\ UNCHANGED <<builderVars, ioVars, eval_loader, targs, n_total_steps,
                   print_epochs, epoch, i, mean_loss, loss_counter, loss, nb, exact,
                   losses, batches, opt_steps, printed, line, call, ret>>

\* Line 49: loss.backward()
Backward ==
    /\ pc = "l49"
    /\ ops' = Append(ops, "backward")
    /\ pc' = "l50"
    /\ UNCHANGED <<builderVars, ioVars, eval_loader, targs, n_total_steps,
                   print_epochs, epoch, i, mean_loss, loss_counter, loss, nb, exact,
                   losses, batches, opt_steps, printed, line, call, ret>>

\* OptimizerStep as it would be if optimizer.step() were called twice for a
\* batch.
OptimizerStepTwice ==
    /\ pc = "l50"
    /\ params' = [params EXCEPT ![targs.model] = optimizer_step(optimizer_step(@, loss), loss)]
    /\ ops' = Append(Append(ops, "step"), "step")
    /\ opt_steps' = opt_steps + 2
    /\ pc' = "l52"
    /\ UNCHANGED <<builderVars, files, eval_loader, targs, n_total_steps,
                   print_epochs, epoch, i, mean_loss, loss_counter, loss, nb, exact,
                   losses, batches, printed, line, call, ret>>

\* Line 50: optimizer.step()
OptimizerStep ==
    /\ pc = "l50"
    /\ params' = [params EXCEPT ![targs.model] = optimizer_step(@, loss)]
    /\ ops' = Append(ops, "step")
    /\ opt_steps' = opt_steps + 1
    /\ pc' = "l52"
    /\ UNCHANGED <<builderVars, files, eval_loader, targs, n_total_steps,
                   print_epochs, epoch, i, mean_loss, loss_counter, loss, nb, exact,
                   losses, batches, printed, line, call, ret>>

\* Whether lines 52-53 let the progress line through; the moduli are by
\* print_epochs and by int(n_total_steps / print_steps).
PrintsAt(ep, step, every, total, steps) ==
    /\ ep % every = 0
    /\ step % int_div(total, steps) = 0

\* Lines 52-55: the progress line.
PrintProgress ==
    /\ pc = "l52"
    /\ IF print_epochs = 0
       THEN /\ ret' = Raised("ZeroDivisionError", 52)
            /\ pc' = "idle"
            /\ UNCHANGED <<printed, line>>
       ELSE IF epoch % print_epochs = 0 /\ int_div(n_total_steps, targs.print_steps) = 0
       THEN /\ ret' = Raised("ZeroDivisionError", 53)
            /\ pc' = "idle"
            /\ UNCHANGED <<printed, line>>
       ELSE IF PrintsAt(epoch, i + 1, print_epochs, n_total_steps, targs.print_steps)
       THEN /\ printed' = printed + 1
            /\ line' = <<[epoch |-> epoch + 1, step |-> i + 1,
                          loss |-> [num |-> mean_loss, den |-> loss_counter]]>>
            /\ pc' = "l37"
            /\ ret' = ret
       ELSE /\ pc' = "l37"
            /\ UNCHANGED <<printed, line, ret>>
    /\ UNCHANGED <<builderVars, ioVars, eval_loader, targs, n_total_steps,
                   print_epochs, epoch, i, mean_loss, loss_counter, loss, nb, exact,
                   losses, ops, batches, opt_steps, call>>

\* Lines 56-58: the closing banner and return mean_loss/n_total_steps.
TrainReturn ==
    /\ pc = "l56"
    /\ ret' = IF n_total_steps = 0 THEN Raised("ZeroDivisionError", 58)
              ELSE [kind |-> "returned",
                    value |-> [num |-> mean_loss, den |-> n_total_steps]]
    /\ pc' = "idle"
    /\ UNCHANGED <<builderVars, ioVars, eval_loader, targs, n_total_steps,
                   print_epochs, epoch, i, mean_loss, loss_counter, loss, nb, exact,
                   losses, ops, batches, opt_steps, printed, line, call>>

TrainStep ==
    \/ TrainStart
    \/ ForEpoch
    \/ \E k \in 0..MaxBatches : EpochStart(k)
    \/ ForBatch
    \/ Forward
    \/ \E v \in LossValues : Loss(v)
    \/ Accumulate
    \/ ZeroGrad
    \/ Backward
    \/ OptimizerStep
    \/ PrintProgress
    \/ TrainReturn

-----------------------------------------------------------------------------
(* Specifications                                                          *)

\* The state before any call, given the image size, the parameters of the
\* two models and the evaluation loader.
InitWith(h, w, ps, loader) ==
    /\ img_h = h /\ img_w = w /\ last_out = 0 /\ n_layers = 0
    /\ params = ps
    /\ files = [f \in Paths |-> <<>>]
    /\ eval_loader = loader
    /\ pc = "idle"
    /\ targs = [model |-> "model", n_epochs |-> 0, len |-> 0, print_steps |-> 1,
                print_epochs |-> <<>>]
    /\ NoRun
    /\ call = [op |-> "none"]
    /\ ret = [kind |-> "none"]

NoLoader == [dataset |-> <<>>, batch_size |-> 1]

\* The architecture builder: ConvNet's dimension bookkeeping and conv_out.
InitBuilder ==
    \E h \in 1..MaxSize, w \in 1..MaxSize :
        InitWith(h, w, [m \in Models |-> 0], NoLoader)

NextBuilder ==
    \/ \E a \in ConvOutArgs : ConvOutCall(a)
    \/ \E out_size \in OutSizes, kernel \in 1..MaxKernel,
          stride \in 1..MaxStride, padding \in AutoPadding..MaxPadding :
            convolution(IF last_out = 0 THEN 1 ELSE last_out, out_size, kernel,
                        stride, padding)
    \/ \E kernel \in PoolKernels, stride \in 1..MaxStride, pool_type \in PoolTypes :
            pooling(kernel, stride, pool_type)

SpecBuilder == InitBuilder /\ [][NextBuilder]_vars

\* The training loop.
InitTrain == InitWith(1, 1, [m \in Models |-> 0], NoLoader)

NextTrain ==
    \/ \E n_epochs \in 0..MaxEpochs, len \in 0..MaxBatches,
          print_steps \in 1..MaxPrintSteps, pe \in PrintEpochsArgs :
            TrainCall("model", n_epochs, len, print_steps, pe)
    \/ TrainStep

SpecTrain == InitTrain /\ [][NextTrain]_vars

\* The evaluation loop, on every small loader.
InitEval ==
    \E ps \in [Models -> ParamVals], loader \in Loaders(MaxSamples) :
        InitWith(1, 1, ps, loader)

NextEval ==
    \E device \in {cpu, cuda}, class_results \in BOOLEAN, show_wrongs \in BOOLEAN,
       n_wrongs \in 0..MaxWrongs :
        load_model("model", device, <<>>, class_results, show_wrongs, n_wrongs)

SpecEval == InitEval /\ [][NextEval]_vars

\* Training, evaluating, saving and loading two models.
InitIO ==
    \E ps \in [Models -> ParamVals], loader \in Loaders(1) :
        InitWith(1, 1, ps, loader)

NextIO ==
    \/ \E m \in Models, n_epochs \in 0..1 :
            TrainCall(m, n_epochs, 1, 1, <<>>)
    \/ TrainStep
    \/ \E m \in Models, device \in Devices, save_path \in {<<>>} \cup {<<f>> : f \in Paths},
          class_results \in BOOLEAN :
            load_model(m, device, save_path, class_results, FALSE, 0)
    \/ \E m \in Models, save_path \in Paths : save_model(m, save_path)

SpecIO == InitIO /\ [][NextIO]_vars

-----------------------------------------------------------------------------
(* Claims about the architecture builder (SpecBuilder)                     *)

\* floor(a / b) for b > 0
Floor(a, b) == a \div b

\* C1: for size, padding >= 0, kernel >= 1 and stride >= 1, conv_out and the
\* explicit-padding branch of ConvNet.convolution give exactly
\* floor((size + 2*padding - kernel) / stride) + 1, also where
\* size + 2*padding - kernel is negative or no multiple of stride.
C1_OutputSizeIsFloorFormula ==
    /\ call.op = "conv_out" =>
          ret.value = Floor(call.size + 2 * call.padding - call.kernel, call.stride) + 1
    /\ (call.op = "convolution" /\ call.padding # AutoPadding
            /\ call.img_h >= 1 /\ call.img_w >= 1) =>
          /\ img_h = Floor(call.img_h + 2 * call.padding - call.kernel, call.stride) + 1
          /\ img_w = Floor(call.img_w + 2 * call.padding - call.kernel, call.stride) + 1

\* C2: with padding = -1 and stride = 1, for every kernel >= 1 and every
\* height and width >= 1, img_h and img_w after the call are what they were
\* before it, and they are the output size
\* floor((size + 2*padding - kernel_size) / 1) + 1 of the layer the call made.
C2_AutoPaddingKeepsSize ==
    (call.op = "convolution" /\ call.padding = AutoPadding /\ call.stride = 1
        /\ call.img_h >= 1 /\ call.img_w >= 1) =>
       LET layer == ret.value
           out(size) == Floor(size + 2 * layer.padding - layer.kernel_size, 1) + 1
       IN  /\ img_h = call.img_h
           /\ img_w = call.img_w
           /\ img_h = out(call.img_h)
           /\ img_w = out(call.img_w)

\* Truncation of a / b toward zero, b > 0.
Trunc(a, b) == IF a >= 0 THEN a \div b ELSE -((-a) \div b)

\* C9: pooling with a pool_type other than 'max', 'avg', 'lp' does not
\* raise; it returns a TypeError object in place of a layer, and img_h and
\* img_w have been divided by stride by then (so for stride > 1 a nonzero
\* dimension is no longer what it was).
C9_UnknownPoolTypeReturnsError ==
    (call.op = "pooling" /\ call.pool_type \notin {"max", "avg", "lp"}) =>
       /\ ret.kind = "returned"
       /\ ret.value.kind = "TypeError"
       /\ img_h = Trunc(call.img_h, call.stride)
       /\ img_w = Trunc(call.img_w, call.stride)
       /\ (call.stride > 1 /\ call.img_h # 0) => img_h # call.img_h
       /\ (call.stride > 1 /\ call.img_w # 0) => img_w # call.img_w

\* C9, reached: pooling(2, 2, 'min') on a 2 x 2 image returned the error
\* object and left a 1 x 1 image.
C9_Witness ==
    /\ call.op = "pooling" /\ call.pool_type = "min" /\ call.stride = 2
    /\ call.img_h = 2 /\ call.img_w = 2
    /\ img_h = 1 /\ img_w = 1
    /\ ret.kind = "returned" /\ ret.value.kind = "TypeError"

-----------------------------------------------------------------------------
(* Claims about the evaluation loop (SpecEval)                             *)

\* The samples of the evaluation loader the model of the last call
\* classifies as labelled.
CorrectSamples ==
    {k \in 1..Len(eval_loader.dataset) :
        Predicted(params[call.model], eval_loader.dataset[k][1])
            = eval_loader.dataset[k][2]}

\* C4: load_model returns 100.0 * (samples whose prediction is their label)
\* / (samples), counted over all batches; and on a non-empty evaluation set
\* on which every prediction is the label it returns exactly 100.0, whatever
\* the batch split, class_results and show_wrongs.
C4_AccuracyReturned ==
    call.op = "load_model" =>
       /\ ret.kind = "returned" =>
             ret.value.num * Len(eval_loader.dataset)
                 = 100 * Cardinality(CorrectSamples) * ret.value.den
       /\ (Len(eval_loader.dataset) > 0
             /\ Cardinality(CorrectSamples) = Len(eval_loader.dataset)) =>
             /\ ret.kind = "returned"
             /\ ret.value.num = 100 * ret.value.den

\* C5: with class_results = True and a class without samples in the
\* (non-empty) evaluation set, load_model ends in an explicit error, not in the
\* ZeroDivisionError of the division by the class's sample count.
C5_EmptyClassIsFlagged ==
    (call.op = "load_model" /\ call.class_results
        /\ Len(eval_loader.dataset) > 0
        /\ \E c \in Labels : \A k \in 1..Len(eval_loader.dataset) :
              eval_loader.dataset[k][2] # c) =>
       /\ ret.kind = "raised"
       /\ ret.exc # "ZeroDivisionError"

-----------------------------------------------------------------------------
(* Claims about checkpoints and the parameter state (SpecIO)               *)

\* C3: after save_model(model, path), load_model(other_model, ...,
\* save_path = path, device = d), when it returns, leaves other_model with
\* the saved parameters, for every device d, so that it predicts as the
\* saved model.
C3_LoadRestoresCheckpoint ==
    (call.op = "load_model" /\ call.save_path # <<>>
        /\ files[call.save_path[1]] # <<>> /\ ret.kind = "returned") =>
       /\ params[call.model] = files[call.save_path[1]][1]
       /\ \A image \in Images :
             Predicted(params[call.model], image)
                 = Predicted(files[call.save_path[1]][1], image)

\* A step of load_model or save_model: both are one step, from idle to idle.
LoadOrSaveStep == pc = "idle" /\ pc' = "idle"

\* C10 as stated: only train_model changes the parameter state; every
\* load_model call, with or without save_path, and every save_model call
\* leaves it as it was.  (Stated for the calls that return.)
C10_OnlyTrainingChangesParams ==
    [][(LoadOrSaveStep /\ ret'.kind = "returned") => params' = params]_vars

\* C10 as amended: the parameter state is changed only by the optimizer
\* step of train_model (which changes the trained model's parameters only)
\* and by a load_model call given a save_path and the device cuda, mps or
\* cpu, which replaces the model's parameters by the checkpoint's;
\* load_model without save_path or with another device, and save_model,
\* leave it as it was.
C10_TrainingOrCheckpointLoadChangesParams ==
    [][/\ LoadOrSaveStep =>
            IF /\ call'.op = "load_model"
               /\ call'.save_path # <<>>
               /\ call'.device \in {cuda, mps, cpu}
               /\ files[call'.save_path[1]] # <<>>
            THEN params' = [params EXCEPT ![call'.model] = files[call'.save_path[1]][1]]
            ELSE params' = params
       /\ (~LoadOrSaveStep /\ params' # params) =>
            /\ pc = "l50"
            /\ \A m \in Models \ {targs.model} : params'[m] = params[m]
      ]_vars

\* C10, reached: a load_model call with a save_path on cpu has returned and
\* has given other_model the parameters of the checkpoint that save_model
\* wrote, which are not those model has now.
C10_Witness ==
    /\ call.op = "load_model" /\ call.model = "other_model"
    /\ call.save_path # <<>> /\ call.device = cpu /\ ret.kind = "returned"
    /\ files[call.save_path[1]] # <<>>
    /\ params["other_model"] = files[call.save_path[1]][1]
    /\ params["model"] # params["other_model"]

-----------------------------------------------------------------------------
(* Claims about the training loop (SpecTrain)                              *)

RECURSIVE SumSeq(_)
SumSeq(s) == IF s = <<>> THEN 0 ELSE s[1] + SumSeq(Tail(s))

IsPrefix(s, t) == Len(s) <= Len(t) /\ SubSeq(t, 1, Len(s)) = s

\* The steps of one batch, in the order the claim gives.
BatchSteps == <<"forward", "loss", "zero_grad", "backward", "step">>

\* train_model has returned a value and nothing was called since.
TrainReturned == call.op = "train_model" /\ pc = "idle" /\ ret.kind = "returned"

\* The steps of each batch come in the order forward, loss, zero_grad,
\* backward, step, each once, and a batch starts only after the optimizer
\* step of the one before.
BatchStepsInOrder ==
    /\ IsPrefix(ops, BatchSteps)
    /\ pc = "l42" => opt_steps = batches - 1
    /\ pc = "l52" => ops = BatchSteps /\ opt_steps = batches
    /\ (pc = "l37" /\ i >= 0) => ops = BatchSteps /\ opt_steps = batches

\* C6 as stated: the batch steps are in order, and a run that completes has
\* made exactly n_epochs * len(data_loader) optimizer steps.
C6_StepsInOrderAndCounted ==
    /\ BatchStepsInOrder
    /\ TrainReturned => opt_steps = targs.n_epochs * targs.len

\* C6 as amended: the batch steps are in order, and a run that completes
\* has made exactly one optimizer step for each batch the loader yielded,
\* which is n_epochs * len(data_loader) steps when the loader yields
\* len(data_loader) batches in every epoch.
C6_StepsInOrderOnePerBatch ==
    /\ BatchStepsInOrder
    /\ TrainReturned =>
          /\ opt_steps = batches
          /\ exact => opt_steps = targs.n_epochs * targs.len

\* C6, reached: two epochs over a loader of length 2 that yielded 2 batches
\* each time, 4 optimizer steps, returned.
C6_Witness ==
    /\ TrainReturned /\ targs.n_epochs = 2 /\ targs.len = 2 /\ exact
    /\ batches = 4 /\ opt_steps = 4 /\ ops = BatchSteps

\* C7: progress is printed only in epochs whose index is a multiple of
\* print_epochs; in each such epoch exactly print_steps lines are printed,
\* for every loader length >= 1 and every print_steps >= 1; the loss on a
\* line is the sum of the epoch's batch losses so far over their number.
\* (Stated for a loader that yields len(data_loader) batches.)
C7_PrintCadence ==
    /\ printed > 0 => epoch % print_epochs = 0
    /\ (call.op = "train_model" /\ targs.len >= 1 /\ exact) => ret.kind # "raised"
    /\ (pc = "l34" /\ epoch >= 0 /\ n_total_steps >= 1 /\ nb = n_total_steps
            /\ epoch % print_epochs = 0) =>
          printed = targs.print_steps
    /\ (pc = "l37" /\ line # <<>> /\ line[1].epoch = epoch + 1 /\ line[1].step = i + 1) =>
          /\ line[1].loss.num = SumSeq(losses)
          /\ line[1].loss.den = Len(losses)

\* The value train_model returned is the mean of the batch losses of the
\* last epoch (there is one, and it had batches).
ReturnedIsLastEpochMean ==
    /\ targs.n_epochs >= 1
    /\ nb >= 1
    /\ ret.value.num * nb = SumSeq(losses) * ret.value.den

\* What train_model returns: the sum of the batch losses of the last epoch
\* only, over len(data_loader); 0 for no epoch.
ReturnsLastEpochSumOverLen ==
    /\ TrainReturned =>
          ret.value = [num |-> SumSeq(losses), den |-> targs.len]
    /\ (TrainReturned /\ targs.n_epochs = 0) => ret.value.num = 0

\* C8 as stated: train_model returns the last epoch's sum of batch losses
\* over len(data_loader), 0 for n_epochs = 0, and that is the last epoch's
\* mean batch loss exactly when the epoch iterated len(data_loader) batches.
C8_ReturnIsMeanIffExactLoader ==
    /\ ReturnsLastEpochSumOverLen
    /\ (TrainReturned /\ targs.n_epochs >= 1) =>
          (ReturnedIsLastEpochMean <=> nb = targs.len)

\* C8 as amended: the same, but the returned value is the last epoch's mean
\* batch loss exactly when the epoch iterated len(data_loader) batches or
\* iterated some batches whose losses sum to 0.
C8_ReturnIsMeanIffExactLoaderOrZeroSum ==
    /\ ReturnsLastEpochSumOverLen
    /\ (TrainReturned /\ targs.n_epochs >= 1) =>
          (ReturnedIsLastEpochMean <=>
              (nb = targs.len \/ (nb >= 1 /\ SumSeq(losses) = 0)))

\* C8, reached: the second of two epochs iterated 1 batch of a loader of
\* length 2, with a loss of 1: train_model returned 1/2, the mean is 1.
C8_Witness ==
    /\ TrainReturned /\ targs.n_epochs = 2 /\ targs.len = 2
    /\ nb = 1 /\ losses = <<1>>
    /\ ret.value = [num |-> 1, den |-> 2]

====
